---- MODULE Spec2Model ----
(***************************************************************************)
(* Task-management demo: the notification pipeline and the task cache.     *)
(*   api-service    TaskService + NotificationQueue (Redis list            *)
(*                  "notifications") + RedisCache                          *)
(*   worker-service Celery app, process_notification and its collaborator  *)
(*                  clients (ApiClient, EmailClient)                       *)
(*   email-service  POST /api/emails/send                                  *)
(* Python values: dicts are functions on their keys, None has one          *)
(* representation per position (NoneId, NoneStr, None), an exception is an *)
(* Outcome with raised = TRUE.                                             *)
(***************************************************************************)
EXTENDS Integers, Sequences, FiniteSets, TLC

VARIABLES
    db,             \* tasks table: id -> row
    nextId,         \* next autoincrement task id
    cache,          \* Redis keys task:{id} -> cached value
    notifications,  \* Redis list "notifications" (head = index 1)
    produced,       \* history: messages handed to the NotificationQueue, in call order
    apiResult,      \* what the last TaskService call returned
    celery,         \* the Celery broker queue of the worker (head = index 1)
    nextTag,        \* next delivery tag of the broker
    dispatched,     \* history: delivery tags run by the worker, in run order
    lastRun,        \* the worker's last process_notification run
    jobResult,      \* result of the last periodic job run
    requests,       \* TaskService calls run step by step: each one's position and locals
    lastEmail       \* last request the email service answered

vars == <<db, nextId, cache, notifications, produced, apiResult, requests,
          celery, nextTag, dispatched, lastRun, jobResult, lastEmail>>

apiVars == <<db, nextId, cache, notifications, produced, apiResult, requests>>
workerVars == <<celery, nextTag, dispatched, lastRun, jobResult>>

----------------------------------------------------------------------------
(* Bounds *)

MaxTasks == 2
MaxPublished == 3
MaxQueue == 2
MaxProduced == 3
MaxRequests == 2

----------------------------------------------------------------------------
(* Python values *)

NoneId == 0
NoneStr == "None"
None == [none |-> TRUE]

Return(v) == [raised |-> FALSE, value |-> v]
Raise(e) == [raised |-> TRUE, exc |-> e]

DictGet(d, k, none) == IF k \in DOMAIN d THEN d[k] ELSE none

Truthy(v) == v # None

----------------------------------------------------------------------------
(* Input domains *)

UserIds == {1, 2}
TaskIds == 1..MaxTasks
Emails == {"a@x.com", "b@x.com"}

\* notification_data a client of the broker can hand to process_notification
NotificationData ==
    { [type |-> t, task_id |-> 1, user_id |-> 2] :
        t \in {"task_created", "task_reminder", "bogus"} }
    \cup { [type |-> t] : t \in {"task_reminder", "bogus"} }
    \cup { [task_id |-> 1, user_id |-> 2] }

\* what an HTTP call can come to: no response (timeout, connection error),
\* or a response with a status and a JSON body
HttpFailures == { [net |-> "timeout"], [net |-> "connection_error"] }
HttpResponse(status, json) == [net |-> "ok", status |-> status, json |-> json]

TaskResponses(task_id) ==
    HttpFailures
    \cup { HttpResponse(200, [id |-> task_id]),
           HttpResponse(404, [detail |-> "Task not found"]),
           HttpResponse(500, [detail |-> "Internal Server Error"]) }

UserResponses(user_id) ==
    HttpFailures
    \cup { HttpResponse(200, [id |-> user_id, email |-> e]) : e \in Emails }
    \cup { HttpResponse(404, [detail |-> "User not found"]) }

----------------------------------------------------------------------------
(* email-service: POST /api/emails/send *)

JsonResponse(status, json) == [status |-> status, json |-> json]

\* the address the users table holds for a user
EmailOf(user_id) == IF user_id = 1 THEN "a@x.com" ELSE "b@x.com"

\* What the email service's own user lookup can return for the request: the
\* user of that id, or nothing (no such user, or the API service unreachable)
EmailUserLookups(data) ==
    LET user_id == DictGet(data, "user_id", NoneId)
    IN  IF user_id = NoneId THEN {None}
        ELSE {None, [id |-> user_id, email |-> EmailOf(user_id), username |-> "u"]}

\* how a send can go: ENV=development only logs; otherwise the SMTP exchange
\* goes through or throws
SmtpConditions == {"development", "delivered", "refused"}

\* EmailService.send_email (and send_task_completed_email, send_welcome_email,
\* which only build subject and body): True, or False when SMTP throws
email_service_send_email(smtp) ==
    IF smtp = "development" THEN TRUE
    ELSE IF smtp = "refused" THEN FALSE
    ELSE TRUE

\* routes.send_email; user is what api_client.get_user answers there
send_email(data, user, smtp) ==
    LET email_type == DictGet(data, "type", NoneStr)
        success == email_service_send_email(smtp)
    IN  IF email_type = "task_completed" THEN
            IF ~Truthy(user) THEN JsonResponse(404, [error |-> "User not found"])
            ELSE IF success THEN JsonResponse(200, [status |-> "sent", to |-> user.email])
            ELSE JsonResponse(500, [error |-> "Failed to send email"])
        ELSE IF email_type = "welcome" THEN
            IF ~Truthy(user) THEN JsonResponse(404, [error |-> "User not found"])
            ELSE IF success THEN
                JsonResponse(200, [status |-> "sent", to |-> DictGet(data, "to", NoneStr)])
            ELSE JsonResponse(500, [error |-> "Failed to send email"])
        ELSE JsonResponse(400, [error |-> "Invalid email type"])

\* The record the email service leaves of one answered request
EmailExchange(data, user, smtp) ==
    [request |-> data, user |-> user, smtp |-> smtp, response |-> send_email(data, user, smtp)]

\* Conditions of one call to the email service: the network, and the service's
\* own collaborators
EmailEnvs(data) ==
    { [net |-> n, user |-> u, smtp |-> s] :
        n \in {"ok", "timeout", "connection_error"},
        u \in EmailUserLookups(data), s \in SmtpConditions }

\* httpx: client.post(...) then response.raise_for_status()
HttpPost(data, env) ==
    IF env.net # "ok" THEN Raise(env.net)
    ELSE LET response == send_email(data, env.user, env.smtp)
         IN  IF response.status >= 400 THEN Raise("HTTPStatusError")
             ELSE Return(response.json)

----------------------------------------------------------------------------
(* worker-service: collaborator clients *)

\* try: <body> except Exception: return <fallback>
TryExcept(body, fallback) == IF body.raised THEN Return(fallback) ELSE body

\* self.client.get(url); response.raise_for_status(); return response.json()
HttpGet(resp) ==
    IF resp.net # "ok" THEN Raise(resp.net)
    ELSE IF resp.status >= 400 THEN Raise("HTTPStatusError")
    ELSE Return(resp.json)

get_task(resp) == TryExcept(HttpGet(resp), None)

get_user_unguarded(resp) == HttpGet(resp)

get_user(resp) == TryExcept(HttpGet(resp), None)

ReminderRequest(task_id, user_id, user_email) ==
    [type |-> "task_reminder", task_id |-> task_id, user_id |-> user_id, to |-> user_email]

send_task_reminder_unguarded(task_id, user_id, user_email, env) ==
    LET posted == HttpPost(ReminderRequest(task_id, user_id, user_email), env)
    IN  IF posted.raised THEN posted ELSE Return(TRUE)

send_task_reminder(task_id, user_id, user_email, env) ==
    LET posted == HttpPost(ReminderRequest(task_id, user_id, user_email), env)
    IN  TryExcept(IF posted.raised THEN posted ELSE Return(TRUE), FALSE)

----------------------------------------------------------------------------
(* worker-service: process_notification *)

Ran(out, calls) == [out |-> out, calls |-> calls]

\* the task_created branch: log only
handle_task_created_fetching(task_id, user_id) ==
    Ran(Return([status |-> "logged", task_id |-> task_id]),
        <<[fn |-> "get_task", id |-> task_id, ret |-> None]>>)

handle_task_created(task_id, user_id) ==
    Ran(Return([status |-> "logged", task_id |-> task_id]), <<>>)

\* the task_reminder branch, and the return it falls through to when the task
\* or the user did not resolve
handle_task_reminder(task_id, user_id, taskResp, userResp, env) ==
    LET task == get_task(taskResp)
        user == get_user(userResp)
        callTask == [fn |-> "get_task", id |-> task_id,
                     ret |-> IF task.raised THEN None ELSE task.value]
        callUser == [fn |-> "get_user", id |-> user_id,
                     ret |-> IF user.raised THEN None ELSE user.value]
        sent == send_task_reminder(task_id, user_id, user.value.email, env)
        callSend == [fn |-> "send_task_reminder", task_id |-> task_id,
                     user_id |-> user_id, user_email |-> user.value.email,
                     ret |-> IF sent.raised THEN FALSE ELSE sent.value]
    IN  IF task.raised THEN Ran(task, <<callTask>>)
        ELSE IF user.raised THEN Ran(user, <<callTask, callUser>>)
        ELSE IF Truthy(task.value) /\ Truthy(user.value) THEN
            IF sent.raised THEN Ran(sent, <<callTask, callUser, callSend>>)
            ELSE Ran(Return([status |-> "reminder_sent", task_id |-> task_id]),
                     <<callTask, callUser, callSend>>)
        ELSE Ran(Return([status |-> "unknown_type"]), <<callTask, callUser>>)

\* tasks.process_notification; taskResp and userResp are what the API service
\* answers to the two GETs, env the conditions of the POST to the email service
process_notification(notification_data, taskResp, userResp, env) ==
    LET notification_type == DictGet(notification_data, "type", NoneStr)
        task_id == DictGet(notification_data, "task_id", NoneId)
        user_id == DictGet(notification_data, "user_id", NoneId)
    IN  IF notification_type = "task_created" THEN handle_task_created(task_id, user_id)
        ELSE IF notification_type = "task_reminder"
        THEN handle_task_reminder(task_id, user_id, taskResp, userResp, env)
        ELSE Ran(Return([status |-> "unknown_type"]), <<>>)

\* tasks.process_task_reminders: logs, touches nothing
process_task_reminders == [status |-> "processed"]

----------------------------------------------------------------------------
(* worker-service: the Celery app *)

\* A delivery the worker has taken is acknowledged before the task body runs
\* and the task declares no retry: whatever the run comes to, the delivery is gone
AcknowledgeOrRetry(queue, out) ==
    IF out.raised \/ out.value.status = "unknown_type"
    THEN Append(Tail(queue), Head(queue))
    ELSE Tail(queue)

Acknowledge(queue, out) == Tail(queue)

\* no call was made, so nothing was answered
Unasked == [net |-> "unasked"]

IsReminder(data) == DictGet(data, "type", NoneStr) = "task_reminder"

\* the responses the API service can give for the ids of a message: an id that
\* is None is no path of the API, so nothing resolves for it
TaskResponsesFor(data) ==
    LET task_id == DictGet(data, "task_id", NoneId)
    IN  IF ~IsReminder(data) THEN {Unasked}
        ELSE IF task_id = NoneId
        THEN { r \in TaskResponses(task_id) : r.net = "ok" => r.status >= 400 }
        ELSE TaskResponses(task_id)

UserResponsesFor(data) ==
    LET user_id == DictGet(data, "user_id", NoneId)
    IN  IF ~IsReminder(data) THEN {Unasked}
        ELSE IF user_id = NoneId
        THEN { r \in UserResponses(user_id) : r.net = "ok" => r.status >= 400 }
        ELSE UserResponses(user_id)

\* the conditions of the POST to the email service, when the run gets that far
EmailEnvsFor(data, taskResp, userResp) ==
    IF IsReminder(data) /\ ~HttpGet(taskResp).raised /\ ~HttpGet(userResp).raised
    THEN EmailEnvs(data)
    ELSE {Unasked}

\* the email exchange of a run, if its request reached the email service
EmailSeen(run, env, before) ==
    IF Len(run.calls) = 3 /\ env.net = "ok"
    THEN EmailExchange(ReminderRequest(run.calls[3].task_id, run.calls[3].user_id,
                                       run.calls[3].user_email), env.user, env.smtp)
    ELSE before

----------------------------------------------------------------------------
(* api-service: JSON, the Redis cache, the notification queue *)

\* keys whose values json.dumps cannot encode: the ORM's instance state, which
\* every mapped row's __dict__ holds
NotJsonKeys == {"_sa_instance_state"}

\* json.dumps(value, default=str): a value JSON cannot encode goes in as its str()
json_dumps_default_str(keys, d) ==
    Return([i \in 1..(2 * Len(keys)) |->
               IF i % 2 = 1 THEN keys[(i + 1) \div 2]
               ELSE ToString(d[keys[i \div 2]])])

\* json.dumps of a dict whose keys, in insertion order, are keys: the text as
\* its sequence of tokens, or TypeError
json_dumps(keys, d) ==
    IF \E i \in 1..Len(keys) : keys[i] \in NotJsonKeys THEN Raise("TypeError")
    ELSE Return([i \in 1..(2 * Len(keys)) |->
                    IF i % 2 = 1 THEN keys[(i + 1) \div 2]
                    ELSE ToString(d[keys[i \div 2]])])

\* db_task.__dict__ of a mapped row, and its keys
RowKeys == <<"_sa_instance_state", "id", "title", "completed", "user_id">>
RowDict(row) ==
    [k \in {RowKeys[i] : i \in 1..Len(RowKeys)} |->
        IF k = "_sa_instance_state" THEN "<InstanceState>" ELSE row[k]]

\* RedisCache.get: the stored text decoded, None when the key is absent
cache_get(c, key) == IF key \in DOMAIN c THEN [text |-> c[key]] ELSE None

\* RedisCache.set: json.dumps(value), then SETEX
cache_set(c, key, keys, value) ==
    LET text == json_dumps(keys, value)
    IN  IF text.raised THEN text
        ELSE Return([k \in DOMAIN c \cup {key} |-> IF k = key THEN text.value ELSE c[k]])

\* RedisCache.delete
cache_delete(c, key) == [k \in DOMAIN c \ {key} |-> c[k]]

lpush(list, value) == <<value>> \o list

\* redis RPUSH: the value goes to the tail of the list
rpush(list, value) == Append(list, value)

MessageKeys == <<"type", "task_id", "user_id">>

\* NotificationQueue.send_task_created: the message, and the list after it
task_created_message(task_id, user_id) ==
    [type |-> "task_created", task_id |-> task_id, user_id |-> user_id]

send_task_created(list, task_id, user_id) ==
    rpush(list, json_dumps(MessageKeys, task_created_message(task_id, user_id)).value)

\* NotificationQueue.send_task_reminder
task_reminder_message(task_id, user_id) ==
    [type |-> "task_reminder", task_id |-> task_id, user_id |-> user_id]

send_task_reminder_message(list, task_id, user_id) ==
    rpush(list, json_dumps(MessageKeys, task_reminder_message(task_id, user_id)).value)

----------------------------------------------------------------------------
(* api-service: TaskRepository *)

HasRow(rows, task_id) == task_id \in DOMAIN rows

\* TaskRepository.get_task
repository_get_task(rows, task_id) == IF HasRow(rows, task_id) THEN rows[task_id] ELSE None

\* TaskRepository.create_task: the row as committed and refreshed
NewRow(id, task, user_id) ==
    [id |-> id, title |-> task.title, completed |-> FALSE, user_id |-> user_id]

repository_create_task(rows, id, task, user_id) ==
    [k \in DOMAIN rows \cup {id} |-> IF k = id THEN NewRow(id, task, user_id) ELSE rows[k]]

\* TaskRepository.update_task: the fields the request sets are written
UpdatedRow(row, task) ==
    [k \in DOMAIN row |-> IF k \in DOMAIN task THEN task[k] ELSE row[k]]

repository_update_task(rows, task_id, task) ==
    IF HasRow(rows, task_id)
    THEN [rows EXCEPT ![task_id] = UpdatedRow(rows[task_id], task)]
    ELSE rows

\* TaskRepository.delete_task
repository_delete_task(rows, task_id) == [k \in DOMAIN rows \ {task_id} |-> rows[k]]

\* TaskRepository.get_tasks: the user's rows, by id, after offset and limit
RECURSIVE RowsFrom(_, _, _)
RowsFrom(rows, user_id, from) ==
    IF \A k \in DOMAIN rows : k < from THEN <<>>
    ELSE IF from \in DOMAIN rows /\ rows[from].user_id = user_id
    THEN <<rows[from]>> \o RowsFrom(rows, user_id, from + 1)
    ELSE RowsFrom(rows, user_id, from + 1)

repository_get_tasks(rows, user_id, skip, limit) ==
    LET all == RowsFrom(rows, user_id, 1)
    IN  SubSeq(all, skip + 1, IF skip + limit < Len(all) THEN skip + limit ELSE Len(all))

----------------------------------------------------------------------------
(* Initial state *)

NoRun == [tag |-> 0]
NoResult == [op |-> "none"]
NoEmail == [request |-> [type |-> "none"]]

Init ==
    /\ db = <<>>
    /\ nextId = 1
    /\ cache = <<>>
    /\ notifications = <<>>
    /\ produced = <<>>
    /\ apiResult = NoResult
    /\ requests = <<>>
    /\ celery = <<>>
    /\ nextTag = 1
    /\ dispatched = <<>>
    /\ lastRun = NoRun
    /\ jobResult = None
    /\ lastEmail = NoEmail

----------------------------------------------------------------------------
(* worker-service actions *)

\* a client of the broker sends process_notification(notification_data)
Publish(notification_data) ==
    /\ nextTag <= MaxPublished
    /\ Len(celery) < MaxQueue
    /\ celery' = Append(celery, [tag |-> nextTag, args |-> notification_data])
    /\ nextTag' = nextTag + 1
    /\ UNCHANGED <<dispatched, lastRun, jobResult, lastEmail>>
    /\ UNCHANGED apiVars

\* the worker takes the oldest delivery and runs process_notification on it
Worker ==
    /\ celery # <<>>
    /\ LET delivery == Head(celery)
           data == delivery.args
       IN  \E taskResp \in TaskResponsesFor(data), userResp \in UserResponsesFor(data) :
           \E env \in EmailEnvsFor(data, taskResp, userResp) :
             LET run == process_notification(data, taskResp, userResp, env)
             IN  /\ celery' = Acknowledge(celery, run.out)
                 /\ dispatched' = Append(dispatched, delivery.tag)
                 /\ lastRun' = [tag |-> delivery.tag, data |-> data,
                                taskResp |-> taskResp, userResp |-> userResp,
                                out |-> run.out, calls |-> run.calls]
                 /\ lastEmail' = EmailSeen(run, env, lastEmail)
    /\ UNCHANGED <<nextTag, jobResult>>
    /\ UNCHANGED apiVars

\* the periodic reminder job
ProcessTaskReminders ==
    /\ jobResult' = process_task_reminders
    /\ UNCHANGED <<celery, nextTag, dispatched, lastRun, lastEmail>>
    /\ UNCHANGED apiVars

WorkerNext ==
    \/ \E d \in NotificationData : Publish(d)
    \/ Worker
    \/ ProcessTaskReminders

WorkerSpec == Init /\ [][WorkerNext]_vars

----------------------------------------------------------------------------
(* api-service: TaskService *)

TaskCreates == { [title |-> "t1"] }

\* TaskUpdate bodies, as the fields they set
TaskUpdates == { [completed |-> b] : b \in BOOLEAN } \cup { <<>> }

CompletedRequest(task_id, user_id) ==
    [type |-> "task_completed", task_id |-> task_id, user_id |-> user_id]

\* TaskService.get_task: what it returns or raises, and the cache after it
service_get_task(c, rows, task_id) ==
    LET cached == cache_get(c, task_id)
        task == repository_get_task(rows, task_id)
        stored == cache_set(c, task_id, RowKeys, RowDict(task))
    IN  IF Truthy(cached) THEN [out |-> Return(cached), cache |-> c]
        ELSE IF Truthy(task) THEN
            IF stored.raised THEN [out |-> stored, cache |-> c]
            ELSE [out |-> Return(task), cache |-> stored.value]
        ELSE [out |-> Return(None), cache |-> c]

CreateTask(task, user_id) ==
    /\ nextId <= MaxTasks
    /\ db' = repository_create_task(db, nextId, task, user_id)
    /\ nextId' = nextId + 1
    /\ notifications' = send_task_created(notifications, nextId, user_id)
    /\ produced' = Append(produced, task_created_message(nextId, user_id))
    /\ apiResult' = [op |-> "create_task", out |-> Return(NewRow(nextId, task, user_id))]
    /\ UNCHANGED <<cache, lastEmail>>
    /\ UNCHANGED <<requests, workerVars>>

GetTask(task_id) ==
    /\ LET got == service_get_task(cache, db, task_id)
       IN  /\ cache' = got.cache
           /\ apiResult' = [op |-> "get_task", task_id |-> task_id, out |-> got.out]
    /\ UNCHANGED <<db, nextId, notifications, produced, lastEmail>>
    /\ UNCHANGED <<requests, workerVars>>

GetTasks(user_id, skip, limit) ==
    /\ apiResult' = [op |-> "get_tasks",
                     out |-> Return(repository_get_tasks(db, user_id, skip, limit))]
    /\ UNCHANGED <<db, nextId, cache, notifications, produced, lastEmail>>
    /\ UNCHANGED <<requests, workerVars>>

UpdateTask(task_id, task) ==
    /\ db' = repository_update_task(db, task_id, task)
    /\ IF HasRow(db, task_id)
       THEN /\ cache' = cache_delete(cache, task_id)
            /\ IF DictGet(task, "completed", FALSE)
               THEN LET request == CompletedRequest(task_id, db[task_id].user_id)
                    IN  \E env \in EmailEnvs(request) :
                          LET posted == HttpPost(request, env)
                          IN  /\ lastEmail' = IF env.net = "ok"
                                              THEN EmailExchange(request, env.user, env.smtp)
                                              ELSE lastEmail
                              /\ apiResult' = [op |-> "update_task", task_id |-> task_id,
                                               out |-> IF posted.raised THEN posted
                                                       ELSE Return(db'[task_id])]
               ELSE /\ lastEmail' = lastEmail
                    /\ apiResult' = [op |-> "update_task", task_id |-> task_id,
                                     out |-> Return(db'[task_id])]
       ELSE /\ apiResult' = [op |-> "update_task", task_id |-> task_id, out |-> Return(None)]
            /\ UNCHANGED <<cache, lastEmail>>
    /\ UNCHANGED <<nextId, notifications, produced>>
    /\ UNCHANGED <<requests, workerVars>>

DeleteTask(task_id) ==
    /\ db' = repository_delete_task(db, task_id)
    /\ cache' = IF HasRow(db, task_id) THEN cache_delete(cache, task_id) ELSE cache
    /\ apiResult' = [op |-> "delete_task", task_id |-> task_id,
                     out |-> Return(HasRow(db, task_id))]
    /\ UNCHANGED <<nextId, notifications, produced, lastEmail>>
    /\ UNCHANGED <<requests, workerVars>>

ApiNext ==
    \/ \E task \in TaskCreates, user_id \in UserIds : CreateTask(task, user_id)
    \/ \E task_id \in TaskIds : GetTask(task_id)
    \/ \E user_id \in UserIds, skip \in {0, 1}, limit \in {100} : GetTasks(user_id, skip, limit)
    \/ \E task_id \in TaskIds, task \in TaskUpdates : UpdateTask(task_id, task)
    \/ \E task_id \in TaskIds : DeleteTask(task_id)

\* the API service together with the periodic reminder job
ApiSpec == Init /\ [][ApiNext \/ ProcessTaskReminders]_vars

----------------------------------------------------------------------------
(* api-service: TaskService calls of concurrent requests.  Each request runs *)
(* its handler in its own thread: the cache get, the database read, the      *)
(* database commit and the cache set or delete are steps other requests run  *)
(* between.  A call that returns or raises leaves its result in apiResult.   *)

\* the task the concurrent requests address
RacedTaskIds == {1}

Done(r) == [op |-> r.op, task_id |-> r.task_id, pc |-> "done"]
Result(r, out) == [op |-> r.op, task_id |-> r.task_id, out |-> out]

\* the requests as they are after a cache.delete of task_id: a get_task that
\* has read its row and not yet stored it is marked (history only)
AfterInvalidation(reqs, task_id) ==
    [k \in DOMAIN reqs |->
        IF reqs[k].pc = "cache_set" /\ reqs[k].task_id = task_id
        THEN [reqs[k] EXCEPT !.invalidated = TRUE]
        ELSE reqs[k]]

BeginGetTask(task_id) ==
    /\ Len(requests) < MaxRequests
    /\ requests' = Append(requests, [op |-> "get_task", task_id |-> task_id, pc |-> "cache_get"])
    /\ UNCHANGED <<db, nextId, cache, notifications, produced, apiResult, lastEmail>>
    /\ UNCHANGED workerVars

\* get_task: cached = self.cache.get(cache_key); if cached: return Task(**cached)
GetTaskCacheGet(r) ==
    /\ requests[r].op = "get_task" /\ requests[r].pc = "cache_get"
    /\ LET cached == cache_get(cache, requests[r].task_id)
       IN  IF Truthy(cached)
           THEN /\ requests' = [requests EXCEPT ![r] = Done(@)]
                /\ apiResult' = Result(requests[r], Return(cached))
           ELSE /\ requests' = [requests EXCEPT ![r] = [@ EXCEPT !.pc = "db_read"]]
                /\ apiResult' = apiResult
    /\ UNCHANGED <<db, nextId, cache, notifications, produced, lastEmail>>
    /\ UNCHANGED workerVars

\* get_task: task = self.repository.get_task(task_id)
GetTaskDbRead(r) ==
    /\ requests[r].op = "get_task" /\ requests[r].pc = "db_read"
    /\ LET task == repository_get_task(db, requests[r].task_id)
       IN  IF Truthy(task)
           THEN /\ requests' = [requests EXCEPT ![r] =
                       [op |-> "get_task", task_id |-> @.task_id, pc |-> "cache_set",
                        task |-> task, invalidated |-> FALSE]]
                /\ apiResult' = apiResult
           ELSE /\ requests' = [requests EXCEPT ![r] = Done(@)]
                /\ apiResult' = Result(requests[r], Return(None))
    /\ UNCHANGED <<db, nextId, cache, notifications, produced, lastEmail>>
    /\ UNCHANGED workerVars

\* get_task: self.cache.set(cache_key, task.__dict__); return task
GetTaskCacheSet(r) ==
    /\ requests[r].op = "get_task" /\ requests[r].pc = "cache_set"
    /\ LET req == requests[r]
           stored == cache_set(cache, req.task_id, RowKeys, RowDict(req.task))
       IN  /\ cache' = IF stored.raised THEN cache ELSE stored.value
           /\ requests' = [requests EXCEPT ![r] = Done(req)]
           /\ apiResult' = [op |-> "get_task", task_id |-> req.task_id,
                            out |-> IF stored.raised THEN stored ELSE Return(req.task),
                            task |-> req.task, invalidated |-> req.invalidated]
    /\ UNCHANGED <<db, nextId, notifications, produced, lastEmail>>
    /\ UNCHANGED workerVars

BeginUpdateTask(task_id, task) ==
    /\ Len(requests) < MaxRequests
    /\ requests' = Append(requests, [op |-> "update_task", task_id |-> task_id,
                                      pc |-> "db_read", task |-> task])
    /\ UNCHANGED <<db, nextId, cache, notifications, produced, apiResult, lastEmail>>
    /\ UNCHANGED workerVars

\* repository.update_task: db_task = self.get_task(task_id); None is returned as it is
UpdateTaskDbRead(r) ==
    /\ requests[r].op = "update_task" /\ requests[r].pc = "db_read"
    /\ IF HasRow(db, requests[r].task_id)
       THEN /\ requests' = [requests EXCEPT ![r] = [@ EXCEPT !.pc = "db_commit"]]
            /\ apiResult' = apiResult
       ELSE /\ requests' = [requests EXCEPT ![r] = Done(@)]
            /\ apiResult' = Result(requests[r], Return(None))
    /\ UNCHANGED <<db, nextId, cache, notifications, produced, lastEmail>>
    /\ UNCHANGED workerVars

\* repository.update_task: setattr, commit, refresh.  On a row deleted since
\* the read the flush of a changed field or the refresh raises
UpdateTaskDbCommit(r) ==
    /\ requests[r].op = "update_task" /\ requests[r].pc = "db_commit"
    /\ LET req == requests[r]
       IN  IF HasRow(db, req.task_id)
           THEN /\ db' = repository_update_task(db, req.task_id, req.task)
                /\ requests' = [requests EXCEPT ![r] =
                       [op |-> "update_task", task_id |-> req.task_id, pc |-> "cache_delete",
                        task |-> req.task, db_task |-> db'[req.task_id]]]
                /\ apiResult' = apiResult
           ELSE /\ db' = db
                /\ requests' = [requests EXCEPT ![r] = Done(req)]
                /\ apiResult' = Result(req, Raise(IF req.task = <<>> THEN "InvalidRequestError"
                                                  ELSE "StaleDataError"))
    /\ UNCHANGED <<nextId, cache, notifications, produced, lastEmail>>
    /\ UNCHANGED workerVars

\* update_task: self.cache.delete(...), then the completion email
UpdateTaskCacheDelete(r) ==
    /\ requests[r].op = "update_task" /\ requests[r].pc = "cache_delete"
    /\ LET req == requests[r]
       IN  /\ cache' = cache_delete(cache, req.task_id)
           /\ requests' = [AfterInvalidation(requests, req.task_id) EXCEPT ![r] = Done(req)]
           /\ IF DictGet(req.task, "completed", FALSE)
              THEN LET request == CompletedRequest(req.db_task.id, req.db_task.user_id)
                   IN  \E env \in EmailEnvs(request) :
                         LET posted == HttpPost(request, env)
                         IN  /\ lastEmail' = IF env.net = "ok"
                                             THEN EmailExchange(request, env.user, env.smtp)
                                             ELSE lastEmail
                             /\ apiResult' = Result(req, IF posted.raised THEN posted
                                                         ELSE Return(req.db_task))
              ELSE /\ lastEmail' = lastEmail
                   /\ apiResult' = Result(req, Return(req.db_task))
    /\ UNCHANGED <<db, nextId, notifications, produced>>
    /\ UNCHANGED workerVars

BeginDeleteTask(task_id) ==
    /\ Len(requests) < MaxRequests
    /\ requests' = Append(requests, [op |-> "delete_task", task_id |-> task_id, pc |-> "db_read"])
    /\ UNCHANGED <<db, nextId, cache, notifications, produced, apiResult, lastEmail>>
    /\ UNCHANGED workerVars

\* repository.delete_task: db_task = self.get_task(task_id); False when there is none
DeleteTaskDbRead(r) ==
    /\ requests[r].op = "delete_task" /\ requests[r].pc = "db_read"
    /\ IF HasRow(db, requests[r].task_id)
       THEN /\ requests' = [requests EXCEPT ![r] = [@ EXCEPT !.pc = "db_commit"]]
            /\ apiResult' = apiResult
       ELSE /\ requests' = [requests EXCEPT ![r] = Done(@)]
            /\ apiResult' = Result(requests[r], Return(FALSE))
    /\ UNCHANGED <<db, nextId, cache, notifications, produced, lastEmail>>
    /\ UNCHANGED workerVars

\* repository.delete_task: self.db.delete(db_task); self.db.commit(); return True
DeleteTaskDbCommit(r) ==
    /\ requests[r].op = "delete_task" /\ requests[r].pc = "db_commit"
    /\ db' = repository_delete_task(db, requests[r].task_id)
    /\ requests' = [requests EXCEPT ![r] = [@ EXCEPT !.pc = "cache_delete"]]
    /\ UNCHANGED <<nextId, cache, notifications, produced, apiResult, lastEmail>>
    /\ UNCHANGED workerVars

\* delete_task: if success: self.cache.delete(...); return success
DeleteTaskCacheDelete(r) ==
    /\ requests[r].op = "delete_task" /\ requests[r].pc = "cache_delete"
    /\ cache' = cache_delete(cache, requests[r].task_id)
    /\ requests' = [AfterInvalidation(requests, requests[r].task_id) EXCEPT ![r] = Done(@)]
    /\ apiResult' = Result(requests[r], Return(TRUE))
    /\ UNCHANGED <<db, nextId, notifications, produced, lastEmail>>
    /\ UNCHANGED workerVars

ConcurrentNext ==
    \/ \E task \in TaskCreates, user_id \in UserIds :
          nextId \in RacedTaskIds /\ CreateTask(task, user_id)
    \/ \E task_id \in RacedTaskIds : BeginGetTask(task_id)
    \/ \E task_id \in RacedTaskIds, task \in TaskUpdates : BeginUpdateTask(task_id, task)
    \/ \E task_id \in RacedTaskIds : BeginDeleteTask(task_id)
    \/ \E r \in DOMAIN requests :
          \/ GetTaskCacheGet(r)
          \/ GetTaskDbRead(r)
          \/ GetTaskCacheSet(r)
          \/ UpdateTaskDbRead(r)
          \/ UpdateTaskDbCommit(r)
          \/ UpdateTaskCacheDelete(r)
          \/ DeleteTaskDbRead(r)
          \/ DeleteTaskDbCommit(r)
          \/ DeleteTaskCacheDelete(r)

\* the API service under concurrent requests
ConcurrentSpec == Init /\ [][ConcurrentNext]_vars

----------------------------------------------------------------------------
(* email-service action *)

EmailRequests ==
    { CompletedRequest(t, u) : t \in TaskIds, u \in UserIds }
    \cup { [type |-> "welcome", user_id |-> u, to |-> e] : u \in UserIds, e \in Emails }
    \cup { ReminderRequest(t, u, e) : t \in TaskIds, u \in UserIds, e \in Emails }
    \cup { [type |-> t] : t \in {"task_completed", "welcome", "task_reminder", "bogus"} }
    \cup { [task_id |-> 1, user_id |-> 2] }

\* POST /api/emails/send from any client
EmailApi(data, user, smtp) ==
    /\ lastEmail' = EmailExchange(data, user, smtp)
    /\ UNCHANGED apiVars
    /\ UNCHANGED workerVars

EmailNext == \E data \in EmailRequests :
                \E user \in EmailUserLookups(data), smtp \in SmtpConditions : EmailApi(data, user, smtp)

EmailSpec == Init /\ [][EmailNext]_vars

----------------------------------------------------------------------------
(* The whole system *)

Next == ApiNext \/ WorkerNext \/ EmailNext

Spec == Init /\ [][Next]_vars

----------------------------------------------------------------------------
(* Properties of the worker (checked under WorkerSpec) *)

HasRun == lastRun # NoRun
RunType == DictGet(lastRun.data, "type", NoneStr)
KnownTypes == {"task_created", "task_reminder"}
Resolved(resp) == resp.net = "ok" /\ resp.status = 200
QueuedTags == { celery[i].tag : i \in 1..Len(celery) }
CallsOf(fn) == { i \in 1..Len(lastRun.calls) : lastRun.calls[i].fn = fn }
Occurrences(seq, x) == Cardinality({ i \in 1..Len(seq) : seq[i] = x })

\* C1: a task_reminder run whose task and user both resolve calls
\* send_task_reminder exactly once, with the message's task_id and user_id and
\* the resolved user's email, and returns {status: reminder_sent, task_id}
C1_ReminderSentOnce ==
    (HasRun /\ RunType = "task_reminder"
        /\ Resolved(lastRun.taskResp) /\ Resolved(lastRun.userResp)) =>
        /\ Cardinality(CallsOf("send_task_reminder")) = 1
        /\ \A i \in CallsOf("send_task_reminder") :
              /\ lastRun.calls[i].task_id = lastRun.data.task_id
              /\ lastRun.calls[i].user_id = lastRun.data.user_id
              /\ lastRun.calls[i].user_email = lastRun.userResp.json.email
        /\ lastRun.out = Return([status |-> "reminder_sent", task_id |-> lastRun.data.task_id])

C1_Witness ==
    /\ HasRun /\ RunType = "task_reminder"
    /\ Resolved(lastRun.taskResp) /\ Resolved(lastRun.userResp)
    /\ lastRun.userResp.json.email = "a@x.com"
    /\ CallsOf("send_task_reminder") = {3}

\* C4: a task_reminder run returns a result and never raises, whatever each
\* collaborator call came to; no delivery that was run is on the broker queue
\* again, nothing is put on the notification queue, and the worker can take
\* the next delivery
C4_FailuresCaught ==
    (HasRun /\ RunType = "task_reminder") =>
        /\ ~lastRun.out.raised
        /\ \A i \in 1..Len(dispatched) : dispatched[i] \notin QueuedTags
        /\ Len(notifications) = Len(produced)
        /\ (celery # <<>> => ENABLED Worker)

C4_Witness ==
    /\ HasRun /\ RunType = "task_reminder"
    /\ lastRun.taskResp.net = "timeout"
    /\ lastRun.userResp.net = "ok" /\ lastRun.userResp.status = 404
    /\ celery # <<>>

\* C5: a task_created run makes no collaborator call, and its delivery is no
\* longer on the queue
C5_CreatedLoggedOnly ==
    (HasRun /\ RunType = "task_created") =>
        /\ lastRun.calls = <<>>
        /\ ~lastRun.out.raised
        /\ lastRun.tag \notin QueuedTags

C5_Witness ==
    /\ HasRun /\ RunType = "task_created"
    /\ lastRun.out = Return([status |-> "logged", task_id |-> 1])
    /\ celery # <<>>

\* C6: a run on a message of no known type (or of no type at all) returns
\* {status: unknown_type}, makes no collaborator call, and its delivery is off
\* the queue and was run once
C6_UnknownTypeDropped ==
    (HasRun /\ RunType \notin KnownTypes) =>
        /\ lastRun.out = Return([status |-> "unknown_type"])
        /\ lastRun.calls = <<>>
        /\ lastRun.tag \notin QueuedTags
        /\ Occurrences(dispatched, lastRun.tag) = 1

C6_Witness ==
    /\ HasRun /\ lastRun.data = [type |-> "bogus"]
    /\ lastRun.out = Return([status |-> "unknown_type"])
    /\ celery # <<>>

\* C9: process_notification returns unknown_type if and only if the message
\* type is neither task_created nor task_reminder
C9_UnknownOnlyForUnknownType ==
    (HasRun /\ ~lastRun.out.raised) =>
        (lastRun.out.value.status = "unknown_type" <=> RunType \notin KnownTypes)

\* C10: process_notification returns reminder_sent only when
\* send_task_reminder returned True
C10_SentOnlyOnSuccess ==
    (HasRun /\ ~lastRun.out.raised /\ lastRun.out.value.status = "reminder_sent") =>
        \E i \in CallsOf("send_task_reminder") : lastRun.calls[i].ret = TRUE

----------------------------------------------------------------------------
(* Properties of the email service (checked under EmailSpec) *)

HasEmail == lastEmail # NoEmail
EmailTypes == {"task_completed", "welcome", "task_reminder"}

\* C3: a request of any of the three types, whose user resolves and whose
\* mail send succeeds, is answered 200 {status: sent, to: <address>}
C3_AllThreeTypesAccepted ==
    (HasEmail /\ DictGet(lastEmail.request, "type", NoneStr) \in EmailTypes
        /\ Truthy(lastEmail.user) /\ email_service_send_email(lastEmail.smtp)) =>
        /\ lastEmail.response.status = 200
        /\ DictGet(lastEmail.response.json, "status", NoneStr) = "sent"
        /\ "to" \in DOMAIN lastEmail.response.json

----------------------------------------------------------------------------
(* The producer and the consumer together *)

Encoded(message) == json_dumps(MessageKeys, message).value

\* a direct call of NotificationQueue.send_task_created
SendTaskCreated(task_id, user_id) ==
    /\ Len(produced) < MaxProduced
    /\ notifications' = send_task_created(notifications, task_id, user_id)
    /\ produced' = Append(produced, task_created_message(task_id, user_id))
    /\ UNCHANGED <<db, nextId, cache, apiResult, lastEmail>>
    /\ UNCHANGED <<requests, workerVars>>

\* a direct call of NotificationQueue.send_task_reminder
SendTaskReminder(task_id, user_id) ==
    /\ Len(produced) < MaxProduced
    /\ notifications' = send_task_reminder_message(notifications, task_id, user_id)
    /\ produced' = Append(produced, task_reminder_message(task_id, user_id))
    /\ UNCHANGED <<db, nextId, cache, apiResult, lastEmail>>
    /\ UNCHANGED <<requests, workerVars>>

PublishLogged == Publish([type |-> "task_created", task_id |-> 1, user_id |-> 2])

\* any sequence of producer calls, beside a running worker
QueueNext ==
    \/ \E task_id \in TaskIds : SendTaskCreated(task_id, 1)
    \/ \E task_id \in TaskIds : SendTaskReminder(task_id, 2)
    \/ PublishLogged
    \/ Worker

QueueSpec == Init /\ [][QueueNext]_vars

\* the API service producing, the worker running whenever it has a delivery
PipelineNext ==
    \/ \E task \in TaskCreates, user_id \in UserIds : CreateTask(task, user_id)
    \/ \E d \in NotificationData : Publish(d)
    \/ Worker

FairPipelineSpec == Init /\ [][PipelineNext]_vars /\ WF_vars(Worker)

\* C2: every message the producer appended to the notification queue is
\* eventually removed from it (the k-th message produced is gone once k
\* messages have left the head of the list)
C2_ProducedEventuallyConsumed ==
    \A k \in 1..MaxProduced :
        (Len(produced) >= k) ~> (Len(produced) - Len(notifications) >= k)

----------------------------------------------------------------------------
(* Properties of the API service (checked under ApiSpec) *)

\* the create and frame parts of C8 alone: the queue holds exactly one message
\* per create_task call, the i-th being {task_created, task_id: i, user_id: the
\* creator}, its task_id the id of the row create_task committed and returned;
\* no other TaskService call enqueues anything
OneCreatedMessagePerCreate ==
    /\ Len(notifications) = nextId - 1
    /\ \A i \in 1..Len(notifications) :
          \E u \in UserIds :
             /\ notifications[i] = Encoded(task_created_message(i, u))
             /\ produced[i] = task_created_message(i, u)
             /\ (i \in DOMAIN db => db[i].user_id = u)
    /\ (apiResult.op = "create_task" =>
          /\ HasRow(db, apiResult.out.value.id)
          /\ notifications[Len(notifications)]
                = Encoded(task_created_message(apiResult.out.value.id,
                                               apiResult.out.value.user_id)))

CreatedAndFramed ==
    /\ nextId = 3
    /\ Len(notifications) = 2
    /\ notifications[1] = Encoded(task_created_message(1, 2))
    /\ ~HasRow(db, 1)
    /\ HasRow(db, 2) /\ db[2].completed
    /\ apiResult.op = "get_task"
    /\ jobResult # None

IsCreatedMessage(text) ==
    \E t \in TaskIds, u \in UserIds : text = Encoded(task_created_message(t, u))

----------------------------------------------------------------------------
(* Properties of the task cache, sequential calls (checked under ApiSpec) *)

\* the cached text holds every column of the row, with the row's value
EntryIsRow(text, row) ==
    \A k \in DOMAIN row :
       \E i \in 1..Len(text) : i % 2 = 1 /\ text[i] = k /\ text[i + 1] = ToString(row[k])

\* the cache side of C11 alone: an update_task or delete_task that found its
\* row leaves no entry task:{id}, and every entry is the current row
CacheInvalidated ==
    /\ (apiResult.op = "update_task" /\ apiResult.out # Return(None)
          => apiResult.task_id \notin DOMAIN cache)
    /\ (apiResult.op = "delete_task" /\ apiResult.out = Return(TRUE)
          => apiResult.task_id \notin DOMAIN cache)
    /\ \A id \in DOMAIN cache : HasRow(db, id) /\ EntryIsRow(cache[id], db[id])

\* C11: over any sequence of create_task, get_task, update_task and
\* delete_task calls, run one after the other: update_task and delete_task on
\* an existing task invalidate the entry task:{id}; every entry task:{id}
\* equals the current database row of that id; get_task returns the current
\* database state, and nothing for a deleted task
C11_CacheFollowsDatabase ==
    /\ CacheInvalidated
    /\ (apiResult.op = "get_task" =>
          /\ ~apiResult.out.raised
          /\ apiResult.out.value = repository_get_task(db, apiResult.task_id))

----------------------------------------------------------------------------
(* Properties of the task cache, concurrent requests (checked under         *)
(* ConcurrentSpec)                                                          *)

AllCompleted == \A k \in DOMAIN requests : requests[k].pc = "done"

\* C12: whatever the interleaving of the steps of concurrent get_task,
\* update_task and delete_task requests on one task id, once every request has
\* completed the cache holds no entry task:{id} that differs from the database
\* row of that id (none for a row that is gone, none with old values)
C12_NoStaleEntryAfterRace ==
    AllCompleted =>
       \A id \in DOMAIN cache : HasRow(db, id) /\ EntryIsRow(cache[id], db[id])

\* every request has completed, the last of them a get_task that read the row
\* before an update_task or delete_task committed and called cache.set after
\* that request's cache.delete, with a row the database no longer holds
C12_Witness ==
    /\ AllCompleted
    /\ \E k \in DOMAIN requests : requests[k].op \in {"update_task", "delete_task"}
    /\ apiResult.op = "get_task"
    /\ "invalidated" \in DOMAIN apiResult
    /\ apiResult.invalidated
    /\ repository_get_task(db, apiResult.task_id) # apiResult.task
====
